---- MODULE Spec2Model ----
(***************************************************************************)
(* Model of src/01_Home.py: the Streamlit page of the application bot.     *)
(*                                                                         *)
(* Every browser session runs main() from top to bottom on each rerun, in  *)
(* its own script thread.  st.session_state is private to a session; the   *)
(* InfoLoader and VectorDB objects returned by get_resources() are cached  *)
(* with st.cache_resource and are therefore one pair of objects shared by  *)
(* all sessions.  main() takes no lock around either of them.              *)
(*                                                                         *)
(* One step of the model is one call into a shared object (or one UI       *)
(* block of main() that touches no shared object), so the model contains   *)
(* exactly the interleavings of calls that the script threads can produce. *)
(*                                                                         *)
(* modules/InfoLoader.py and modules/VectorDB.py are not part of the       *)
(* sources at hand; the effect of their methods is taken from the          *)
(* component contracts (Chunker, Embedding Index, Retrieval Chain,         *)
(* Generation Client).  Temperatures are counted in tenths.                *)
(***************************************************************************)
EXTENDS Integers, FiniteSets

\* ------------------------------------------------------------- bounds ----
MaxUsage == 2

\* The browser sessions sharing the cached objects.
Sessions == {"s1", "s2"}

\* -------------------------------------------------------------- inputs ---
\* The files a user may pick; Corrupt are those whose extraction fails.
Files == {"resume.pdf", "posting.txt", "broken.pdf"}
Corrupt == {"broken.pdf"}
Extractable(files) == files \ Corrupt
\* The batches a user may put into the uploader.
Uploads == {{}, {"resume.pdf"}, {"resume.pdf", "posting.txt"},
            {"posting.txt", "broken.pdf"}}

\* Passwords a user may type, st.secrets['password'] being "secret".
Passwords == {"secret", "wrong"}
Secret == "secret"

\* Temperatures (tenths) a user may try to set: both ends of the slider and
\* the first value beyond it.
TempTried == {0, 20, 21}

\* ------------------------------------------------------ program constants
\* A slider whose range runs one step too far: range(0, 22).
SliderOptionsOneTooFar == {x \in 0..21 : TRUE}
\* options=[x / 10 for x in range(0, 21)]
SliderOptions == {x \in 0..20 : TRUE}
\* value=1.0
SliderDefault == 10
\* prompt_mode = 'Unrestricted'
PromptMode == "Unrestricted"
\* openai_api_key = st.session_state.openai_api_key_host; the host key is a
\* provider key, so openai_api_key.startswith('sk-') holds.
ApiKeyStartsWithSk == TRUE

\* "no llm / no chain / no result yet" (Python None)
NoTemp == 0 - 1
NoChain == [prompt_mode |-> "None", llm |-> NoTemp]
NoResult == [prompt_mode |-> "None", temperature |-> NoTemp]

VARIABLES
    loader,          \* the cached InfoLoader: document_names, document_chunks_full
    vector_db,       \* the cached VectorDB
    pc,              \* per session: where its script run stands
    button,          \* per session: st.button('Hochladen') of this run
    password,        \* per session: the text typed into "Passwort"
    uploaded_files,  \* per session: the files in the uploader
    temperature,     \* per session: the slider value of this run
    usage_counter,   \* per session: st.session_state.usage_counter
    result,          \* per session: the local variable result
    emitted,         \* per session: the outcome element last written to the page
    last_good        \* history: the document set of the last successful ingest

vars == <<loader, vector_db, pc, button, password, uploaded_files, temperature,
          usage_counter, result, emitted, last_good>>

shared == <<loader, vector_db, last_good>>

IngestPcs == {"get_chunks", "create_embedding_function", "initialize_database",
              "ingest_else", "ingest_except"}
QueryPcs == {"create_llm", "create_chain", "get_response", "query_except"}

Init ==
    /\ loader = [document_names |-> {}, document_chunks_full |-> {}]
    /\ vector_db = [document_names |-> {}, index |-> {}, embedding_function |-> FALSE,
                    llm |-> NoTemp, chain |-> NoChain]
    /\ pc = [s \in Sessions |-> "idle"]
    /\ button = [s \in Sessions |-> FALSE]
    /\ password = [s \in Sessions |-> "wrong"]
    /\ uploaded_files = [s \in Sessions |-> {}]
    /\ temperature = [s \in Sessions |-> SliderDefault]
    /\ usage_counter = [s \in Sessions |-> 0]
    /\ result = [s \in Sessions |-> NoResult]
    /\ emitted = [s \in Sessions |-> "none"]
    /\ last_good = {}

\* ---------------------------------------------------------------- sidebar
\* A rerun of the page: the widgets deliver what the user entered.  The
\* button is pressed only while the counter can still take a full batch,
\* which keeps usage_counter within MaxUsage.
Rerun(s) ==
    /\ pc[s] = "idle"
    /\ \E b \in BOOLEAN, p \in Passwords, f \in Uploads :
        /\ b => usage_counter[s] + Cardinality(Extractable(Files)) <= MaxUsage
        /\ button' = [button EXCEPT ![s] = b]
        /\ password' = [password EXCEPT ![s] = p]
        /\ uploaded_files' = [uploaded_files EXCEPT ![s] = f]
    /\ pc' = [pc EXCEPT ![s] = "sidebar"]
    /\ emitted' = [emitted EXCEPT ![s] = "none"]
    /\ UNCHANGED <<shared, temperature, usage_counter, result>>

\* The gate with the password comparison left out.
GateOpenNoPassword(s) ==
    /\ button[s]
    /\ uploaded_files[s] # {}

\* if st.button('Hochladen') and (uploaded_files) and password == st.secrets['password']
GateOpen(s) ==
    /\ button[s]
    /\ uploaded_files[s] # {}
    /\ password[s] = Secret

Gate(s) ==
    /\ pc[s] = "sidebar"
    /\ IF GateOpen(s)
       THEN /\ pc' = [pc EXCEPT ![s] = "get_chunks"]
            /\ emitted' = [emitted EXCEPT ![s] = "status_running"]
       ELSE /\ pc' = [pc EXCEPT ![s] = "slider"]
            /\ UNCHANGED emitted
    /\ UNCHANGED <<shared, button, password, uploaded_files, temperature,
                   usage_counter, result>>

\* --------------------------------------------------------- upload handler
\* loader.get_chunks(uploaded_files): the loader's lists are replaced by what
\* this batch yields; a file whose extraction fails is left out (the failures
\* are the loader's side list, which main() never reads) and the call returns.
GetChunksOk(s) ==
    /\ pc[s] = "get_chunks"
    /\ loader' = [document_names |-> Extractable(uploaded_files[s]),
                  document_chunks_full |-> Extractable(uploaded_files[s])]
    /\ pc' = [pc EXCEPT ![s] = "create_embedding_function"]
    /\ UNCHANGED <<vector_db, last_good, button, password, uploaded_files,
                   temperature, usage_counter, result, emitted>>

\* Any other error of the chunker aborts the call before it stores anything.
GetChunksRaise(s) ==
    /\ pc[s] = "get_chunks"
    /\ pc' = [pc EXCEPT ![s] = "ingest_except"]
    /\ UNCHANGED <<shared, button, password, uploaded_files, temperature,
                   usage_counter, result, emitted>>

\* vector_db.create_embedding_function(openai_api_key)
CreateEmbeddingFunctionOk(s) ==
    /\ pc[s] = "create_embedding_function"
    /\ vector_db' = [vector_db EXCEPT !.embedding_function = TRUE]
    /\ pc' = [pc EXCEPT ![s] = "initialize_database"]
    /\ UNCHANGED <<loader, last_good, button, password, uploaded_files,
                   temperature, usage_counter, result, emitted>>

CreateEmbeddingFunctionRaise(s) ==
    /\ pc[s] = "create_embedding_function"
    /\ pc' = [pc EXCEPT ![s] = "ingest_except"]
    /\ UNCHANGED <<shared, button, password, uploaded_files, temperature,
                   usage_counter, result, emitted>>

\* vector_db.initialize_database(loader.document_chunks_full, loader.document_names):
\* the arguments are read from the shared loader at the time of the call; the
\* index is rebuilt in full from them (replace, not merge).
InitializeDatabaseOk(s) ==
    /\ pc[s] = "initialize_database"
    /\ vector_db' = [vector_db EXCEPT !.index = loader.document_chunks_full,
                                      !.document_names = loader.document_names]
    /\ last_good' = Extractable(uploaded_files[s])
    /\ pc' = [pc EXCEPT ![s] = "ingest_else"]
    /\ UNCHANGED <<loader, button, password, uploaded_files, temperature,
                   usage_counter, result, emitted>>

\* A failing rebuild is atomic: the index stays at the last known-good one.
InitializeDatabaseRaise(s) ==
    /\ pc[s] = "initialize_database"
    /\ pc' = [pc EXCEPT ![s] = "ingest_except"]
    /\ UNCHANGED <<shared, button, password, uploaded_files, temperature,
                   usage_counter, result, emitted>>

\* except Exception: logger.error(...); status.update(label='Error occured.', state='error')
IngestExcept(s) ==
    /\ pc[s] = "ingest_except"
    /\ emitted' = [emitted EXCEPT ![s] = "status_error"]
    /\ pc' = [pc EXCEPT ![s] = "slider"]
    /\ UNCHANGED <<shared, button, password, uploaded_files, temperature,
                   usage_counter, result>>

\* openai_api_key == st.session_state.openai_api_key_host: openai_api_key was
\* assigned from it on line 75.
UsesHostKey == TRUE

\* else: usage_counter += len(loader.document_names); status.update(state='complete')
IngestElse(s) ==
    /\ pc[s] = "ingest_else"
    /\ usage_counter' = [usage_counter EXCEPT ![s] =
          IF UsesHostKey THEN @ + Cardinality(loader.document_names) ELSE @]
    /\ emitted' = [emitted EXCEPT ![s] = "status_complete"]
    /\ pc' = [pc EXCEPT ![s] = "slider"]
    /\ UNCHANGED <<shared, button, password, uploaded_files, temperature, result>>

\* The files the upload handler names as failed: neither branch of the handler
\* reads a failure list from the loader or writes one to the page or the log.
FailuresReported(s) == {}

Ingest(s) ==
    \/ GetChunksOk(s) \/ GetChunksRaise(s)
    \/ CreateEmbeddingFunctionOk(s) \/ CreateEmbeddingFunctionRaise(s)
    \/ InitializeDatabaseOk(s) \/ InitializeDatabaseRaise(s)
    \/ IngestExcept(s) \/ IngestElse(s)

\* ------------------------------------------------------------ query form
\* The slider (only its options can be selected), the info bar and the form.
\* if st.form_submit_button('Absenden') and openai_api_key.startswith('sk-'):
\* enter the spinner and the try block with result = None.
Form(s) ==
    /\ pc[s] = "slider"
    /\ \E t \in TempTried, submit \in BOOLEAN :
        /\ t \in SliderOptions
        /\ IF submit /\ ApiKeyStartsWithSk
           THEN /\ pc' = [pc EXCEPT ![s] = "create_llm"]
                /\ temperature' = [temperature EXCEPT ![s] = t]
                /\ emitted' = [emitted EXCEPT ![s] = "spinner"]
           ELSE /\ pc' = [pc EXCEPT ![s] = "idle"]
                /\ temperature' = [temperature EXCEPT ![s] = SliderDefault]
                /\ UNCHANGED emitted
    /\ result' = [result EXCEPT ![s] = NoResult]
    /\ button' = [button EXCEPT ![s] = FALSE]
    /\ password' = [password EXCEPT ![s] = "wrong"]
    /\ uploaded_files' = [uploaded_files EXCEPT ![s] = {}]
    /\ UNCHANGED <<shared, usage_counter>>

\* temperature in [0.0, 2.0] is what the generation client accepts.
TemperatureValid(t) == t >= 0 /\ t <= 20

\* vector_db.create_llm(openai_api_key, temperature)
CreateLlmOk(s) ==
    /\ pc[s] = "create_llm"
    /\ TemperatureValid(temperature[s])
    /\ vector_db' = [vector_db EXCEPT !.llm = temperature[s]]
    /\ pc' = [pc EXCEPT ![s] = "create_chain"]
    /\ UNCHANGED <<loader, last_good, button, password, uploaded_files, temperature,
                   usage_counter, result, emitted>>

CreateLlmRaise(s) ==
    /\ pc[s] = "create_llm"
    /\ pc' = [pc EXCEPT ![s] = "query_except"]
    /\ UNCHANGED <<shared, button, password, uploaded_files, temperature,
                   usage_counter, result, emitted>>

\* vector_db.create_chain(prompt_mode, source): the chain is built around the
\* llm the shared object holds at the time of the call.
CreateChainOk(s) ==
    /\ pc[s] = "create_chain"
    /\ vector_db' = [vector_db EXCEPT
                        !.chain = [prompt_mode |-> PromptMode, llm |-> vector_db.llm]]
    /\ pc' = [pc EXCEPT ![s] = "get_response"]
    /\ UNCHANGED <<loader, last_good, button, password, uploaded_files, temperature,
                   usage_counter, result, emitted>>

CreateChainRaise(s) ==
    /\ pc[s] = "create_chain"
    /\ pc' = [pc EXCEPT ![s] = "query_except"]
    /\ UNCHANGED <<shared, button, password, uploaded_files, temperature,
                   usage_counter, result, emitted>>

\* result = vector_db.get_response(...): retrieval on the index and generation
\* with the chain the shared object holds at the time of the call; an empty
\* index is refused (NotReady).
GetResponseOk(s) ==
    /\ pc[s] = "get_response"
    /\ vector_db.index # {}
    /\ result' = [result EXCEPT ![s] =
          [prompt_mode |-> vector_db.chain.prompt_mode,
           temperature |-> vector_db.chain.llm]]
    /\ pc' = [pc EXCEPT ![s] = "show"]
    /\ UNCHANGED <<shared, button, password, uploaded_files, temperature,
                   usage_counter, emitted>>

GetResponseRaise(s) ==
    /\ pc[s] = "get_response"
    /\ pc' = [pc EXCEPT ![s] = "query_except"]
    /\ UNCHANGED <<shared, button, password, uploaded_files, temperature,
                   usage_counter, result, emitted>>

\* A handler that logs the exception and shows nothing.
QueryExceptSilent(s) ==
    /\ pc[s] = "query_except"
    /\ pc' = [pc EXCEPT ![s] = "show"]
    /\ UNCHANGED <<shared, button, password, uploaded_files, temperature,
                   usage_counter, result, emitted>>

\* except Exception: logger.error(...); st.error('Error occured, unable to process response!')
QueryExcept(s) ==
    /\ pc[s] = "query_except"
    /\ emitted' = [emitted EXCEPT ![s] = "st_error"]
    /\ pc' = [pc EXCEPT ![s] = "show"]
    /\ UNCHANGED <<shared, button, password, uploaded_files, temperature,
                   usage_counter, result>>

\* if result: st.info('Anschreiben:'); st.info(result["result"])
Show(s) ==
    /\ pc[s] = "show"
    /\ emitted' = [emitted EXCEPT ![s] = IF result[s] # NoResult THEN "answer" ELSE @]
    /\ pc' = [pc EXCEPT ![s] = "idle"]
    /\ temperature' = [temperature EXCEPT ![s] = SliderDefault]
    /\ result' = [result EXCEPT ![s] = NoResult]
    /\ UNCHANGED <<shared, button, password, uploaded_files, usage_counter>>

Query(s) ==
    \/ CreateLlmOk(s) \/ CreateLlmRaise(s)
    \/ CreateChainOk(s) \/ CreateChainRaise(s)
    \/ GetResponseOk(s) \/ GetResponseRaise(s)
    \/ QueryExcept(s) \/ Show(s)

Next == \E s \in Sessions : Rerun(s) \/ Gate(s) \/ Ingest(s) \/ Form(s) \/ Query(s)

Spec == Init /\ [][Next]_vars

\* ================================================================ claims
\* An ingest is in flight from the entry into the try block until
\* initialize_database has returned or a step has raised.
Ingesting(s) == pc[s] \in {"get_chunks", "create_embedding_function",
                           "initialize_database"}
Answering(s) == pc[s] \in {"create_llm", "create_chain", "get_response"}
Ready == vector_db.index # {} /\ \A t \in Sessions : ~Ingesting(t)
MixedBatch(f) == f \cap Corrupt # {} /\ Extractable(f) # {}

\* C1: replace semantics: the Index's document_names is always exactly the
\* document set of the most recent successful ingest (empty before the first).
C1_ReplaceSemantics == vector_db.document_names = last_good

\* C2: a failed ingest is a no-op on the corpus: once a session's ingest has
\* ended in the error status, the Index contents and the document names shown
\* and queried are those of the last successful ingest.
C2_FailedIngestNoOp ==
    \A s \in Sessions :
        (pc[s] = "slider" /\ emitted[s] = "status_error")
            => /\ vector_db.document_names = last_good
               /\ vector_db.index = last_good

\* C3: get_response runs retrieval and generation only when the controller is
\* Ready (non-empty Index, no ingest in flight); in every other state the
\* query ends in the exception handler.
C3_QueryOnlyWhenReady ==
    [][\A s \in Sessions :
          (pc[s] = "get_response" /\ pc'[s] = "show") => Ready]_vars

\* C4: single writer, many readers: while one ingest is in flight, no other
\* session is ingesting and no session is answering.
C4_SingleWriter ==
    \A s, t \in Sessions :
        (s # t /\ Ingesting(s)) => ~Ingesting(t) /\ ~Answering(t)

\* C5: when the ingest of a batch holding both an extractable and a failing
\* file has completed, the extractable files are indexed and exactly the
\* failing files are reported as failures.
C5_PartialFailureReported ==
    \A s \in Sessions :
        (pc[s] = "slider" /\ emitted[s] = "status_complete"
            /\ MixedBatch(uploaded_files[s]))
            => FailuresReported(s) = uploaded_files[s] \cap Corrupt

\* C6: a session's usage counter changes only at the end of a successful
\* ingest, where it grows by the number of documents of that batch that were
\* ingested; no other step changes it.
C6_UsageCounter ==
    [][\A s \in Sessions :
          \/ usage_counter'[s] = usage_counter[s]
          \/ /\ pc[s] = "ingest_else"
             /\ usage_counter'[s] =
                    usage_counter[s] + Cardinality(Extractable(uploaded_files[s]))]_vars

C8_NoSilentDowngrade ==
    [][\A s \in Sessions :
          /\ (pc[s] = "ingest_except" /\ pc'[s] # pc[s])
                => emitted'[s] = "status_error"
          /\ (pc[s] = "query_except" /\ pc'[s] # pc[s])
                => emitted'[s] = "st_error" /\ result'[s] = NoResult
          /\ (pc[s] \in IngestPcs /\ pc'[s] \notin IngestPcs)
                => emitted'[s] \in {"status_complete", "status_error"}
          /\ (pc[s] = "show" /\ pc'[s] # pc[s])
                => /\ emitted'[s] \in {"answer", "st_error"}
                   /\ emitted[s] = "st_error" => emitted'[s] = "st_error"]_vars

\* C8 witness: a query raised and its run ended with the error message.
C8_Witness ==
    \E s \in Sessions : pc[s] = "idle" /\ emitted[s] = "st_error"

\* C9: the ingest steps are entered only with the button pressed, a non-empty
\* upload and the right password; a run whose gate is closed changes neither
\* the loader, nor the Index, nor its usage counter.
C9_SharedSecretGate ==
    [][\A s \in Sessions :
          /\ pc'[s] \in IngestPcs
                => button[s] /\ uploaded_files[s] # {} /\ password[s] = Secret
          /\ (pc[s] \notin IngestPcs /\ pc'[s] # pc[s])
                => /\ loader' = loader
                   /\ vector_db'.index = vector_db.index
                   /\ vector_db'.document_names = vector_db.document_names
                   /\ usage_counter'[s] = usage_counter[s]]_vars

\* C9 witness: the gate stayed closed on a wrong password although the button
\* was pressed with files in the uploader, while the Index was populated.
C9_Witness ==
    \E s \in Sessions :
        /\ pc[s] = "slider" /\ emitted[s] = "none"
        /\ button[s] /\ uploaded_files[s] # {} /\ password[s] # Secret
        /\ vector_db.document_names # {}

\* C10: the response of a submission is generated with the temperature and
\* the prompt mode that this same submission configured.
C10_QueryIsolation ==
    \A s \in Sessions :
        (pc[s] = "show" /\ result[s] # NoResult)
            => /\ result[s].temperature = temperature[s]
               /\ result[s].prompt_mode = PromptMode
====
